---- MODULE Spec2Model ----
(***************************************************************************)
(* reddit-trend-analyzer: the Reddit client (RedditClient: paced fetching, *)
(* retry with backoff, batch fetching of posts and comments) and the       *)
(* keyword engine (TrendAnalyzer.extractKeywords).                         *)
(*                                                                         *)
(* The client is one sequential async call stack.  Its suspension points   *)
(* are the sleeps and the upstream calls; every action below runs the code *)
(* from one upstream answer to the next upstream call (or to the return of *)
(* the public operation).  The upstream (snoowrap / Reddit) is the         *)
(* environment: every answer it can give is drawn with \E.                 *)
(***************************************************************************)
EXTENDS Integers, Sequences, FiniteSets, TLC

(***************************************************************************)
(* Bounds of the exploration.                                              *)
(***************************************************************************)
MaxSources == 2       \* longest subreddit list passed to a fetch
MaxPosts == 2         \* longest listing the upstream returns for a source
MaxComments == 2      \* longest comment listing of a submission
MaxRetriesCfg == 2    \* largest MAX_RETRIES setting explored
MaxCap == 2           \* largest MAX_POSTS_FOR_COMMENTS setting explored
MaxBatchSources == 1  \* longest subreddit list passed to fetchPostsWithComments
MaxTextLen == 5       \* longest text given to extractKeywords
MaxAnalyzed == 2      \* longest array of posts given to the TrendAnalyzer
MaxTicks == 2         \* how far the clock advances during an analysis

(***************************************************************************)
(* Program constants.                                                      *)
(***************************************************************************)
DefaultRequestDelay == 2000
InitialBackoffDelay == 2000
CooldownDelay == 5000
LowWaterMark == 10
InterSourceDelay == 1000
InterParentDelay == 500
MinWordLength == 3

Undefined == "undefined"   \* a missing string-valued property
Null == "null"
NoStatus == 0              \* error.statusCode is undefined
NoHint == -1               \* a remaining-quota hint that is undefined or null

(***************************************************************************)
(* Values of the environment.                                              *)
(***************************************************************************)
Subreddits == {"a", "b"}

SeqsUpTo(S, n) == UNION { [1..k -> S] : k \in 0..n }

SourceLists == SeqsUpTo(Subreddits, MaxSources)
BatchSourceLists == SeqsUpTo(Subreddits, MaxBatchSources)

PostIds == {<<0, 1>>}

\* Error messages that occur; the ones that contain the substring
\* 'rate limit' (case-sensitive, as String.prototype.includes compares).
MsgTooMany == "Too Many Requests"
MsgRateLimit == "You hit the rate limit"
MsgUnavailable == "Service Unavailable"
MsgNotFound == "Not Found"
MsgExceeded == "Rate limit exceeded. Max retries reached. Please try again later."
MsgNullName == "Cannot read properties of null (reading 'name')"
MsgUndefIncludes == "Cannot read properties of undefined (reading 'includes')"

RateLimitMessages == {MsgRateLimit}

Includes_rate_limit(message) == message \in RateLimitMessages

Error(name, statusCode, message, remaining) ==
    [name |-> name, statusCode |-> statusCode, message |-> message,
     ratelimitRemaining |-> remaining]

\* What the upstream can reject a request with.
E429r0 == Error("StatusCodeError", 429, MsgTooMany, 0)
E429r1 == Error("StatusCodeError", 429, MsgTooMany, 1)
E429r5 == Error("StatusCodeError", 429, MsgTooMany, 5)
ERateMsg == Error("Error", NoStatus, MsgRateLimit, NoHint)
E503 == Error("StatusCodeError", 503, MsgUnavailable, NoHint)
E404 == Error("StatusCodeError", 404, MsgNotFound, NoHint)
\* a rejection value that carries no message property
ENoMessage == Error("Object", 404, Undefined, NoHint)

UpstreamErrors == {E429r0, E429r1, E429r5, ERateMsg, E503, E404, ENoMessage}

\* Errors the program itself raises.
RateLimitExceededError == Error("Error", NoStatus, MsgExceeded, NoHint)
TypeErrorNullName == Error("TypeError", NoStatus, MsgNullName, NoHint)
TypeErrorIncludes == Error("TypeError", NoStatus, MsgUndefIncludes, NoHint)

\* A raw post of a listing: the k-th record of the answer to the request for
\* the idx-th source.  A record without author is the malformed one.
RawPost(sub, idx, k, hasAuthor) ==
    [id |-> <<idx, k>>, subreddit |-> sub, title |-> "t",
     author |-> IF hasAuthor THEN "u" ELSE Null]

Listing(sub, idx, marks) ==
    [k \in 1..Len(marks) |-> RawPost(sub, idx, k, marks[k])]

ListingMarks == SeqsUpTo(BOOLEAN, MaxPosts)

\* A raw comment of a submission.
RawComments ==
    { [body |-> "text", author |-> "u"],
      [body |-> "text", author |-> Null],
      [body |-> "[deleted]", author |-> "u"],
      [body |-> "[removed]", author |-> "u"],
      [body |-> "", author |-> Null] }

CommentShapes == SeqsUpTo(RawComments, MaxComments)

CommentListing(shape) ==
    [k \in 1..Len(shape) |->
        [body |-> shape[k].body, author |-> shape[k].author, created_utc |-> k]]

CommentLimits == 1..MaxComments

Min(a, b) == IF a < b THEN a ELSE b

VARIABLES
    client,       \* the RedditClient instance: requestDelay, maxRetries,
                  \* requestCount, rateLimitRemaining, rateLimitReset
    op,           \* the public operation in progress, "none" before the first
    pc,           \* where the call stack is suspended
    hot,          \* frame of fetchHotPosts: subreddits, idx, allPosts
    com,          \* frame of fetchComments: postId, limit
    pwc,          \* frame of fetchPostsWithComments: posts, postsToProcess,
                  \* i, allComments, commentLimit
    chain,        \* the retryWithBackoff chain in progress or just finished
    ret,          \* completion of the callee that just returned to its caller
    result,       \* completion of the public operation
    lastEvent,    \* the last sleep or upstream call of the operation
    obs,          \* observations of the run: what the upstream was asked and
                  \* answered (history, the code never reads it)
    text,         \* input of extractKeywords
    frequency,    \* result of extractKeywords, once it was called
    now,          \* the clock Date.now() reads
    analyzed,     \* the array of posts handed to the TrendAnalyzer
    last          \* the last call made on the TrendAnalyzer: operation,
                  \* arguments, clock at the call, result (history)

vars == <<client, op, pc, hot, com, pwc, chain, ret, result, lastEvent, obs,
          text, frequency, now, analyzed, last>>

clientVars == <<client, op, pc, hot, com, pwc, chain, ret, result, lastEvent, obs>>
analyzerVars == <<now, analyzed, last>>
engineVars == <<text, frequency, now, analyzed, last>>

NoEvent == [type |-> "none", ms |-> 0]
SleepEvent(ms) == [type |-> "sleep", ms |-> ms]
CallEvent == [type |-> "call", ms |-> 0]

NoError == Error("none", NoStatus, Undefined, NoHint)

NoChain == [fn |-> "none", state |-> "none", retries |-> 0, delay |-> 0,
            value |-> <<>>, error |-> NoError, attempts |-> 0,
            errors |-> <<>>, waits |-> <<>>, delays |-> <<>>,
            preCall |-> NoEvent,
            answered |-> FALSE]

NoCompletion == [kind |-> "none", value |-> <<>>, error |-> NoError]
Returned(v) == [kind |-> "return", value |-> v, error |-> NoError]
Thrown(e) == [kind |-> "throw", value |-> <<>>, error |-> e]

NoHot == [subreddits |-> <<>>, idx |-> 0, allPosts |-> <<>>]
NoCom == [postId |-> <<>>, limit |-> 0]
NoPwc == [posts |-> <<>>, cap |-> 0, postsToProcess |-> 0, i |-> 0,
          allComments |-> <<>>, commentLimit |-> 0]
\* fetched: per source of the fetchHotPosts in progress, whether its chain
\*   returned a listing; wanted: the well-formed records of those listings;
\* malformed: some listing held a malformed record;
\* details: the post ids fetchComments was called for by the batch;
\* exhausted: a chain threw because the retries ran out on a rate limit;
\* detailError: an error was raised inside fetchComments;
\* upstreamCalls, expands: upstream requests issued inside and outside
\*   retryWithBackoff.
NoObs == [fetched |-> <<>>, wanted |-> <<>>, malformed |-> FALSE,
          details |-> <<>>, exhausted |-> FALSE,
          detailError |-> FALSE, upstreamCalls |-> 0, expands |-> 0]

\* constructor
ClientInit ==
    /\ client \in [requestDelay : {DefaultRequestDelay},
                   maxRetries : 0..MaxRetriesCfg,
                   requestCount : {0},
                   rateLimitRemaining : {NoHint},
                   rateLimitReset : {NoHint}]
    /\ op = "none"
    /\ pc = "idle"
    /\ hot = NoHot
    /\ com = NoCom
    /\ pwc = NoPwc
    /\ chain = NoChain
    /\ ret = NoCompletion
    /\ result = NoCompletion
    /\ lastEvent = NoEvent
    /\ obs = NoObs

(***************************************************************************)
(* retryWithBackoff and enforceRateLimit.                                  *)
(***************************************************************************)
\* error.statusCode === 429 || error.message?.includes('rate limit')
IsRateLimitError(e) ==
    \/ e.statusCode = 429
    \/ (e.message # Undefined /\ Includes_rate_limit(e.message))

\* error.statusCode >= 500 (false for an undefined statusCode)
IsServerError(e) == e.statusCode # NoStatus /\ e.statusCode >= 500

\* truthiness of error.ratelimitRemaining: undefined, null and 0 are falsy
Truthy(n) == n # NoHint /\ n # 0

WaitTime(e, delay) ==
    IF Truthy(e.ratelimitRemaining)
    THEN (e.ratelimitRemaining * 1000) + 1000
    ELSE delay

\* delay * 1.5; exact on the delays the explored budgets reach
TimesOneAndAHalf(delay) == (delay * 3) \div 2

Retry(wait, retries, delay) ==
    [do |-> "retry", wait |-> wait, retries |-> retries, delay |-> delay,
     error |-> NoError]
Throw(e) ==
    [do |-> "throw", wait |-> 0, retries |-> 0, delay |-> 0, error |-> e]

\* Mutant: the rate-limit branch sleeps the backoff delay whatever the hint.
retryWithBackoff_IgnoresHint(e, retries, delay) ==
    IF IsRateLimitError(e)
    THEN IF retries > 0
         THEN Retry(delay, retries - 1, delay * 2)
         ELSE Throw(RateLimitExceededError)
    ELSE IF retries > 0 /\ IsServerError(e)
         THEN Retry(delay, retries - 1, TimesOneAndAHalf(delay))
         ELSE Throw(e)

\* Mutant: with no retry left the caught rate-limit error is rethrown as is.
retryWithBackoff_Rethrows(e, retries, delay) ==
    IF IsRateLimitError(e)
    THEN IF retries > 0
         THEN Retry(WaitTime(e, delay), retries - 1, delay * 2)
         ELSE Throw(e)
    ELSE IF retries > 0 /\ IsServerError(e)
         THEN Retry(delay, retries - 1, TimesOneAndAHalf(delay))
         ELSE Throw(e)

\* Mutant: the retries are tested with >= 0, one retry too many.
retryWithBackoff_OneTooMany(e, retries, delay) ==
    IF IsRateLimitError(e)
    THEN IF retries >= 0
         THEN Retry(WaitTime(e, delay), retries - 1, delay * 2)
         ELSE Throw(RateLimitExceededError)
    ELSE IF retries >= 0 /\ IsServerError(e)
         THEN Retry(delay, retries - 1, TimesOneAndAHalf(delay))
         ELSE Throw(e)

\* Mutant: the rate-limit branch never sleeps less than the backoff delay.
retryWithBackoff_WaitsMax(e, retries, delay) ==
    IF IsRateLimitError(e)
    THEN IF retries > 0
         THEN Retry(IF WaitTime(e, delay) > delay THEN WaitTime(e, delay) ELSE delay,
                    retries - 1, delay * 2)
         ELSE Throw(RateLimitExceededError)
    ELSE IF retries > 0 /\ IsServerError(e)
         THEN Retry(delay, retries - 1, TimesOneAndAHalf(delay))
         ELSE Throw(e)

\* Mutant: the server-error branch doubles the delay as the rate-limit one.
retryWithBackoff_ServerDoubles(e, retries, delay) ==
    IF IsRateLimitError(e)
    THEN IF retries > 0
         THEN Retry(WaitTime(e, delay), retries - 1, delay * 2)
         ELSE Throw(RateLimitExceededError)
    ELSE IF retries > 0 /\ IsServerError(e)
         THEN Retry(delay, retries - 1, delay * 2)
         ELSE Throw(e)

\* Mutant: every error other than a rate-limit signal is retried.
retryWithBackoff_RetriesAll(e, retries, delay) ==
    IF IsRateLimitError(e)
    THEN IF retries > 0
         THEN Retry(WaitTime(e, delay), retries - 1, delay * 2)
         ELSE Throw(RateLimitExceededError)
    ELSE IF retries > 0
         THEN Retry(delay, retries - 1, TimesOneAndAHalf(delay))
         ELSE Throw(e)

\* The catch block of retryWithBackoff: what is done with a caught error
\* when `retries` retries remain and the backoff delay is `delay`.
retryWithBackoff(e, retries, delay) ==
    IF IsRateLimitError(e)
    THEN IF retries > 0
         THEN Retry(WaitTime(e, delay), retries - 1, delay * 2)
         ELSE Throw(RateLimitExceededError)
    ELSE IF retries > 0 /\ IsServerError(e)
         THEN Retry(delay, retries - 1, TimesOneAndAHalf(delay))
         ELSE Throw(e)

\* retryWithBackoff(fn) called with the default retries and delay
NewChain(fn) ==
    [NoChain EXCEPT !.fn = fn, !.state = "pending",
                    !.retries = client.maxRetries,
                    !.delay = InitialBackoffDelay]

\* enforceRateLimit: the extra delay taken when the remaining quota is low
NeedsCooldown(c) ==
    c.rateLimitRemaining # NoHint /\ c.rateLimitRemaining # 0
        /\ c.rateLimitRemaining < LowWaterMark

enforceRateLimit(c) == [c EXCEPT !.requestCount = @ + 1]

\* What the upstream can answer to the request of the chain.
Answer(v) == [ok |-> TRUE, value |-> v, error |-> NoError]
Reject(e) == [ok |-> FALSE, value |-> <<>>, error |-> e]

Outcomes(fn) ==
    { Reject(e) : e \in UpstreamErrors } \cup
    IF fn = "getHot"
    THEN { Answer(Listing(hot.subreddits[hot.idx], hot.idx, m)) : m \in ListingMarks }
    ELSE { Answer(<<com.postId>>) }

Continuation(fn) == IF fn = "getHot" THEN "hot_got" ELSE "com_got"

\* One attempt of the chain: fn() is enforceRateLimit() and the upstream
\* call; the answer is returned, or the error is caught and the chain
\* sleeps and goes on, or throws.
UpstreamAttempt ==
    /\ pc = "retry"
    /\ \E o \in Outcomes(chain.fn) :
        LET before == IF NeedsCooldown(client)
                      THEN SleepEvent(CooldownDelay) ELSE lastEvent
            d == retryWithBackoff(o.error, chain.retries, chain.delay)
            tried == [chain EXCEPT !.attempts = @ + 1,
                                   !.preCall = before,
                                   !.answered = o.ok]
        IN /\ client' = enforceRateLimit(client)
           /\ IF o.ok
              THEN /\ chain' = [tried EXCEPT !.state = "returned", !.value = o.value]
                   /\ lastEvent' = CallEvent
                   /\ obs' = [obs EXCEPT !.upstreamCalls = @ + 1]
              ELSE IF d.do = "retry"
              THEN /\ chain' = [tried EXCEPT !.retries = d.retries,
                                             !.delay = d.delay,
                                             !.errors = Append(@, o.error),
                                             !.waits = Append(@, d.wait),
                                             !.delays = Append(@, chain.delay)]
                   /\ lastEvent' = SleepEvent(d.wait)
                   /\ obs' = [obs EXCEPT !.upstreamCalls = @ + 1]
              ELSE /\ chain' = [tried EXCEPT !.state = "thrown",
                                             !.error = d.error,
                                             !.errors = Append(@, o.error)]
                   /\ lastEvent' = CallEvent
                   /\ obs' = [obs EXCEPT !.upstreamCalls = @ + 1,
                                         !.exhausted = @ \/ IsRateLimitError(o.error)]
           /\ pc' = IF chain'.state = "pending" THEN "retry"
                    ELSE Continuation(chain.fn)
    /\ UNCHANGED <<op, hot, com, pwc, ret, result, engineVars>>

(***************************************************************************)
(* fetchHotPosts.                                                          *)
(***************************************************************************)
\* The record pushed for a raw post (the fields that are only copied are
\* left out).
PostRecord(post) ==
    [subreddit |-> post.subreddit, title |-> post.title,
     author |-> post.author, id |-> post.id]

\* post.author.name throws a TypeError when the author is missing
IsMalformed(post) == post.author = Null

RECURSIVE PushedPosts(_)
\* `for (const post of posts) allPosts.push({...})`: the records pushed
\* before the loop ends or a record throws.
PushedPosts(listing) ==
    IF listing = <<>> \/ IsMalformed(Head(listing))
    THEN <<>>
    ELSE <<PostRecord(Head(listing))>> \o PushedPosts(Tail(listing))

RECURSIVE WellFormed(_)
\* The records of a listing that have every field, as pushed records.
WellFormed(listing) ==
    IF listing = <<>> THEN <<>>
    ELSE (IF IsMalformed(Head(listing)) THEN <<>> ELSE <<PostRecord(Head(listing))>>)
            \o WellFormed(Tail(listing))

\* Array.prototype.indexOf (0-based; the element is in the array)
IndexOf(array, x) ==
    (CHOOSE k \in 1..Len(array) :
        array[k] = x /\ \A j \in 1..(k - 1) : array[j] # x) - 1

\* The for-loop head of fetchHotPosts with frame h (h.idx sources done):
\* the next source's retryWithBackoff is called, or allPosts is returned.
HotLoop(h) ==
    IF h.idx < Len(h.subreddits)
    THEN [pc |-> "retry", hot |-> [h EXCEPT !.idx = @ + 1],
          chain |-> NewChain("getHot"), ret |-> NoCompletion]
    ELSE [pc |-> "hot_ret", hot |-> h, chain |-> NoChain,
          ret |-> Returned(h.allPosts)]

\* The catch block of a source's iteration: logs error.message, then
\* evaluates error.message.includes('rate limit').
HotCatch(h, e) ==
    IF e.message = Undefined
    THEN [pc |-> "hot_ret", hot |-> h, chain |-> NoChain,
          ret |-> Thrown(TypeErrorIncludes)]
    ELSE HotLoop(h)

\* The rest of a source's iteration once its chain has finished.
HotGot ==
    /\ pc = "hot_got"
    /\ LET sub == hot.subreddits[hot.idx]
           fetched == chain.state = "returned"
           pushed == IF fetched THEN PushedPosts(chain.value) ELSE <<>>
           h == [hot EXCEPT !.allPosts = @ \o pushed]
           complete == fetched /\ Len(pushed) = Len(chain.value)
           sleeps == complete /\ IndexOf(hot.subreddits, sub) < Len(hot.subreddits) - 1
           next == IF complete THEN HotLoop(h)
                   ELSE IF fetched THEN HotCatch(h, TypeErrorNullName)
                   ELSE HotCatch(h, chain.error)
       IN /\ pc' = next.pc
          /\ hot' = next.hot
          /\ chain' = next.chain
          /\ ret' = next.ret
          /\ lastEvent' = IF sleeps THEN SleepEvent(InterSourceDelay) ELSE lastEvent
          /\ obs' = [obs EXCEPT
                        !.fetched = Append(@, fetched),
                        !.wanted = @ \o (IF fetched THEN WellFormed(chain.value) ELSE <<>>),
                        !.malformed = @ \/ (fetched /\ ~complete)]
    /\ UNCHANGED <<client, op, com, pwc, result, engineVars>>

\* fetchHotPosts(subreddits) is called on the client.
FetchHotPosts ==
    /\ pc = "idle"
    /\ \E subs \in SourceLists :
        LET next == HotLoop([NoHot EXCEPT !.subreddits = subs])
        IN /\ pc' = next.pc
           /\ hot' = next.hot
           /\ chain' = next.chain
           /\ ret' = next.ret
    /\ op' = "fetchHotPosts"
    /\ com' = NoCom
    /\ pwc' = NoPwc
    /\ result' = NoCompletion
    /\ UNCHANGED <<client, lastEvent, obs, engineVars>>

\* fetchHotPosts completes to the caller of the client.
FetchHotPostsReturns ==
    /\ pc = "hot_ret"
    /\ op = "fetchHotPosts"
    /\ result' = ret
    /\ pc' = "done"
    /\ UNCHANGED <<client, op, hot, com, pwc, chain, ret, lastEvent, obs, engineVars>>

(***************************************************************************)
(* fetchComments.                                                          *)
(***************************************************************************)
\* comment.body && comment.body !== '[deleted]' && comment.body !== '[removed]'
IsLive(comment) ==
    comment.body # "" /\ comment.body # "[deleted]" /\ comment.body # "[removed]"

CommentRecord(comment) ==
    [author |-> comment.author, body |-> comment.body,
     created_utc |-> comment.created_utc]

\* submission.comments.slice(0, limit)
Slice(array, limit) == SubSeq(array, 1, Min(limit, Len(array)))

RECURSIVE PushedComments(_)
\* The loop over topComments: the records pushed, and whether a record threw
\* (comment.author.name of a live comment without author).
PushedComments(top) ==
    IF top = <<>> THEN [threw |-> FALSE, comments |-> <<>>]
    ELSE IF ~IsLive(Head(top)) THEN PushedComments(Tail(top))
    ELSE IF Head(top).author = Null THEN [threw |-> TRUE, comments |-> <<>>]
    ELSE LET rest == PushedComments(Tail(top))
         IN [threw |-> rest.threw,
             comments |-> <<CommentRecord(Head(top))>> \o rest.comments]

\* The catch block of fetchComments: logs error.message, evaluates
\* error.message.includes('rate limit'), returns [].
ComCatch(e) ==
    IF e.message = Undefined THEN Thrown(TypeErrorIncludes) ELSE Returned(<<>>)

\* The body of fetchComments after the chain, given what expandReplies does.
ComBody(limit, expanded) ==
    IF ~expanded.ok THEN ComCatch(expanded.error)
    ELSE LET pushed == PushedComments(Slice(expanded.value, limit))
         IN IF pushed.threw THEN ComCatch(TypeErrorNullName)
            ELSE Returned(pushed.comments)

ExpandOutcomes ==
    { Reject(e) : e \in UpstreamErrors } \cup
    { Answer(CommentListing(shape)) : shape \in CommentShapes }

\* The rest of fetchComments once its chain has finished: expandReplies (an
\* upstream request outside retryWithBackoff), the mapping, the catch.
ComGot ==
    /\ pc = "com_got"
    /\ IF chain.state = "returned"
       THEN \E x \in ExpandOutcomes :
               /\ ret' = ComBody(com.limit, x)
               /\ lastEvent' = CallEvent
               /\ obs' = [obs EXCEPT !.expands = @ + 1,
                            !.detailError = @ \/ ~x.ok
                                \/ PushedComments(Slice(x.value, com.limit)).threw]
       ELSE /\ ret' = ComCatch(chain.error)
            /\ lastEvent' = lastEvent
            /\ obs' = [obs EXCEPT !.detailError = TRUE]
    /\ pc' = "com_ret"
    /\ chain' = NoChain
    /\ UNCHANGED <<client, op, hot, com, pwc, result, engineVars>>

\* fetchComments(postId, limit) is called on the client.
FetchComments ==
    /\ pc = "idle"
    /\ \E id \in PostIds, limit \in CommentLimits :
        com' = [postId |-> id, limit |-> limit]
    /\ op' = "fetchComments"
    /\ pc' = "retry"
    /\ chain' = NewChain("getSubmission")
    /\ hot' = NoHot
    /\ pwc' = NoPwc
    /\ ret' = NoCompletion
    /\ result' = NoCompletion
    /\ UNCHANGED <<client, lastEvent, obs, engineVars>>

\* fetchComments completes to the caller of the client.
FetchCommentsReturns ==
    /\ pc = "com_ret"
    /\ op = "fetchComments"
    /\ result' = ret
    /\ pc' = "done"
    /\ UNCHANGED <<client, op, hot, com, pwc, chain, ret, lastEvent, obs, engineVars>>

(***************************************************************************)
(* fetchPostsWithComments.                                                 *)
(***************************************************************************)
\* Mutant: every fetched post is processed.
PostsToProcess_NoCap(n, maxPostsForComments) == n

\* Math.min(posts.length, maxPostsForComments)
PostsToProcess(n, maxPostsForComments) == Min(n, maxPostsForComments)

\* The for-loop head over the posts to process with frame w (w.i is the
\* code's i): fetchComments is called for posts[i], or the operation returns.
PwcLoop(w) ==
    IF w.i < w.postsToProcess
    THEN [pc |-> "retry", pwc |-> w,
          com |-> [postId |-> w.posts[w.i + 1].id, limit |-> w.commentLimit],
          chain |-> NewChain("getSubmission"), result |-> NoCompletion,
          called |-> <<w.posts[w.i + 1].id>>]
    ELSE [pc |-> "done", pwc |-> w, com |-> com, chain |-> NoChain,
          result |-> Returned([posts |-> w.posts, comments |-> w.allComments]),
          called |-> <<>>]

\* fetchPostsWithComments(subreddits, postLimit, commentLimit) is called.
FetchPostsWithComments ==
    /\ pc = "idle"
    /\ \E subs \in BatchSourceLists :
        LET next == HotLoop([NoHot EXCEPT !.subreddits = subs])
        IN /\ pc' = next.pc
           /\ hot' = next.hot
           /\ chain' = next.chain
           /\ ret' = next.ret
    /\ \E limit \in CommentLimits : pwc' = [NoPwc EXCEPT !.commentLimit = limit]
    /\ op' = "fetchPostsWithComments"
    /\ com' = NoCom
    /\ result' = NoCompletion
    /\ UNCHANGED <<client, lastEvent, obs, engineVars>>

\* `const posts = await this.fetchHotPosts(...)` completes: the early
\* return on no posts, the cap read from MAX_POSTS_FOR_COMMENTS, the first
\* iteration of the loop.
PwcGotPosts ==
    /\ pc = "hot_ret"
    /\ op = "fetchPostsWithComments"
    /\ IF ret.kind = "throw"
       THEN /\ result' = ret
            /\ pc' = "done"
            /\ UNCHANGED <<pwc, com, chain, obs>>
       ELSE IF Len(ret.value) = 0
       THEN /\ result' = Returned([posts |-> ret.value, comments |-> pwc.allComments])
            /\ pc' = "done"
            /\ pwc' = [pwc EXCEPT !.posts = ret.value]
            /\ UNCHANGED <<com, chain, obs>>
       ELSE \E cap \in 0..MaxCap :
            LET w == [pwc EXCEPT !.posts = ret.value, !.cap = cap,
                         !.postsToProcess = PostsToProcess(Len(ret.value), cap)]
                next == PwcLoop(w)
            IN /\ pc' = next.pc
               /\ pwc' = next.pwc
               /\ com' = next.com
               /\ chain' = next.chain
               /\ result' = next.result
               /\ obs' = [obs EXCEPT !.details = @ \o next.called,
                                     !.detailError = FALSE]
    /\ ret' = NoCompletion
    /\ UNCHANGED <<client, op, hot, lastEvent, engineVars>>

\* allComments.push({...comment, post_id, post_title, subreddit})
Annotated(comment, post) ==
    [author |-> comment.author, body |-> comment.body,
     created_utc |-> comment.created_utc,
     post_id |-> post.id, post_title |-> post.title, subreddit |-> post.subreddit]

\* `await this.fetchComments(post.id, commentLimit)` completes: the comments
\* are pushed and the loop sleeps before the next post, or the catch block
\* skips the post; then the next iteration.
PwcGotComments ==
    /\ pc = "com_ret"
    /\ op = "fetchPostsWithComments"
    /\ LET post == pwc.posts[pwc.i + 1]
           got == ret.kind = "return"
           pushed == IF got
                     THEN [k \in 1..Len(ret.value) |-> Annotated(ret.value[k], post)]
                     ELSE <<>>
           sleeps == got /\ pwc.i < pwc.postsToProcess - 1
           next == PwcLoop([pwc EXCEPT !.allComments = @ \o pushed, !.i = @ + 1])
       IN /\ pc' = next.pc
          /\ pwc' = next.pwc
          /\ com' = next.com
          /\ chain' = next.chain
          /\ result' = next.result
          /\ obs' = [obs EXCEPT !.details = @ \o next.called,
                                !.detailError = FALSE]
          /\ lastEvent' = IF sleeps THEN SleepEvent(InterParentDelay) ELSE lastEvent
    /\ ret' = NoCompletion
    /\ UNCHANGED <<client, op, hot, engineVars>>

(***************************************************************************)
(* TrendAnalyzer.extractKeywords.  A text is a sequence of characters.     *)
(***************************************************************************)
UpperCase == <<"A", "B", "C", "D", "E", "F", "G", "H", "I", "J", "K", "L", "M",
               "N", "O", "P", "Q", "R", "S", "T", "U", "V", "W", "X", "Y", "Z">>
LowerCase == <<"a", "b", "c", "d", "e", "f", "g", "h", "i", "j", "k", "l", "m",
               "n", "o", "p", "q", "r", "s", "t", "u", "v", "w", "x", "y", "z">>
Digits == {"0", "1", "2", "3", "4", "5", "6", "7", "8", "9"}
Range(f) == { f[x] : x \in DOMAIN f }

\* the characters texts are made of
Chars == {"a", "h", "t", "T", "7", "_", "!", " "}

\* String.prototype.toLowerCase, per character
ToLowerCase(c) ==
    IF \E n \in DOMAIN UpperCase : UpperCase[n] = c
    THEN LowerCase[CHOOSE n \in DOMAIN UpperCase : UpperCase[n] = c]
    ELSE c

\* \w is [A-Za-z0-9_]; \s is white space; \d is [0-9]
WordChars == Range(UpperCase) \cup Range(LowerCase) \cup Digits \cup {"_"}
IsWordChar(c) == c \in WordChars
IsSpace(c) == c \in {" ", "\t", "\n", "\r"}
IsDigit(c) == c \in Digits

\* .replace(/[^\w\s]/g, ' '), per character
ReplaceNonWord(c) == IF IsWordChar(c) \/ IsSpace(c) THEN c ELSE " "

\* .split(/\s+/): the pieces between the runs of white space, in order (a
\* leading or trailing run leaves an empty piece, as in JavaScript)
Split(chars) ==
    LET n == Len(chars)
        starts == { i \in 1..n : ~IsSpace(chars[i])
                                   /\ (i = 1 \/ IsSpace(chars[i - 1])) }
        before == [i \in starts |-> Cardinality({ j \in starts : j < i })]
        Start(k) == CHOOSE i \in starts : before[i] = k - 1
        End(i) == CHOOSE j \in i..n :
                      /\ \A m \in i..j : ~IsSpace(chars[m])
                      /\ (j = n \/ IsSpace(chars[j + 1]))
        pieces == [k \in 1..Cardinality(starts) |-> SubSeq(chars, Start(k), End(Start(k)))]
        leading == IF n = 0 \/ IsSpace(chars[1]) THEN << <<>> >> ELSE <<>>
        trailing == IF n > 0 /\ IsSpace(chars[n]) THEN << <<>> >> ELSE <<>>
    IN leading \o pieces \o trailing

RECURSIVE Join(_)
\* the string a sequence of characters spells
Join(word) == IF word = <<>> THEN "" ELSE Head(word) \o Join(Tail(word))

stopWords ==
    {"the", "be", "to", "of", "and", "a", "in", "that", "have", "i",
     "it", "for", "not", "on", "with", "he", "as", "you", "do", "at",
     "this", "but", "his", "by", "from", "they", "we", "say", "her", "she",
     "or", "an", "will", "my", "one", "all", "would", "there", "their",
     "what", "so", "up", "out", "if", "about", "who", "get", "which", "go",
     "me", "when", "make", "can", "like", "time", "no", "just", "him", "know",
     "take", "people", "into", "year", "your", "good", "some", "could", "them",
     "see", "other", "than", "then", "now", "look", "only", "come", "its", "over",
     "think", "also", "back", "after", "use", "two", "how", "our", "work",
     "first", "well", "way", "even", "new", "want", "because", "any", "these",
     "give", "day", "most", "us", "is", "was", "are", "been", "has", "had",
     "were", "said", "did", "having", "may", "should", "am", "im", "dont",
     "doesnt", "didnt", "isnt", "arent", "wasnt", "werent", "wont", "wouldnt",
     "cant", "couldnt", "shouldnt", "ive", "youve", "theyve", "weve", "youre",
     "theyre", "hes", "shes", "thats", "whats", "heres", "theres"}

\* /^\d+$/.test(word)
IsPureNumber(word) == word # <<>> /\ \A n \in DOMAIN word : IsDigit(word[n])

\* Mutant: the stop words are not looked up.
IsKeyword_NoStopWords(word) ==
    /\ Len(word) > MinWordLength
    /\ ~IsPureNumber(word)

\* the filter of extractKeywords
IsKeyword(word) ==
    /\ Len(word) > MinWordLength
    /\ Join(word) \notin stopWords
    /\ ~IsPureNumber(word)

\* the words that survive: lower-cased, non-word characters replaced,
\* split, filtered
Words(t) ==
    SelectSeq(Split([n \in DOMAIN t |-> ReplaceNonWord(ToLowerCase(t[n]))]), IsKeyword)

(***************************************************************************)
(* Frequency maps are plain JavaScript objects created by `{}`: their own   *)
(* properties in insertion order, above Object.prototype.                   *)
(***************************************************************************)
\* the property names every object inherits from Object.prototype
ObjectPrototypeKeys ==
    {"constructor", "__proto__", "hasOwnProperty", "isPrototypeOf",
     "propertyIsEnumerable", "toLocaleString", "toString", "valueOf",
     "__defineGetter__", "__defineSetter__", "__lookupGetter__",
     "__lookupSetter__"}

\* a property value that is no number: the string that `+` makes of an
\* inherited function or object (or of such a string) and a count
NotANumber == -1

RECURSIVE SumValues(_)
SumValues(entries) ==
    IF entries = <<>> THEN 0 ELSE Head(entries).value + SumValues(Tail(entries))

\* The object that the loop
\*     obj[key] = (obj[key] || 0) + value
\* run over the additions `entries` leaves from {}: a property per key, in
\* the order in which the keys were first assigned, holding the sum of the
\* values added for it.  Where obj[key] is first read as a property inherited
\* from Object.prototype, or a value added is no number, `+` concatenates
\* and the property is no number from then on; `__proto__` is the inherited
\* setter, which ignores the string assigned, so no property is made.
Accumulate(entries) ==
    LET firsts == { n \in DOMAIN entries :
                        /\ Join(entries[n].key) # "__proto__"
                        /\ \A j \in 1..(n - 1) : entries[j].key # entries[n].key }
        before == [n \in firsts |-> Cardinality({ j \in firsts : j < n })]
        First(k) == CHOOSE n \in firsts : before[n] = k - 1
        Added(key) == SelectSeq(entries, LAMBDA e : e.key = key)
        Value(key) ==
            IF \/ Join(key) \in ObjectPrototypeKeys
               \/ \E n \in DOMAIN entries :
                      entries[n].key = key /\ entries[n].value = NotANumber
            THEN NotANumber
            ELSE SumValues(Added(key))
    IN [k \in 1..Cardinality(firsts) |->
           [key |-> entries[First(k)].key, value |-> Value(entries[First(k)].key)]]

\* extractKeywords: the frequency map of the surviving words,
\* words.forEach(word => { frequency[word] = (frequency[word] || 0) + 1 })
extractKeywords(t) ==
    LET words == Words(t)
    IN Accumulate([n \in DOMAIN words |-> [key |-> words[n], value |-> 1]])

\* Object.keys
Keys(obj) == { obj[n].key : n \in DOMAIN obj }

(***************************************************************************)
(* TrendAnalyzer: merging, ranking, trend analysis, trending score.         *)
(* Time is counted in ticks of half an hour (created_utc and the clock).    *)
(***************************************************************************)
TicksPerHour == 2

TopKeywordsLimit == 30          \* getTopKeywords(filtered, 30)
SubredditMinFrequency == 2      \* analyzeTrendingKeywords(subPosts, 2)
SubredditKeywordsLimit == 10    \* keywords.slice(0, 10)
EmergingMinFrequency == 2       \* analyzeTrendingKeywords(recentPosts, 2)
EmergingLimit == 15             \* .slice(0, 15)
CommentWeight == 2              \* post.num_comments * 2

Max(a, b) == IF a > b THEN a ELSE b

RECURSIVE Entries(_)
\* the entries of the maps, in the order the two forEach loops visit them
Entries(maps) ==
    IF maps = <<>> THEN <<>> ELSE Head(maps) \o Entries(Tail(maps))

\* merged[word] = (merged[word] || 0) + count, for every entry of every map
mergeFrequencies(frequencyMaps) == Accumulate(Entries(frequencyMaps))

\* the comparator (a, b) => b[1] - a[1] is negative: a is placed before b
\* (a difference that is NaN counts as 0)
CountBefore(a, b) ==
    a.value # NotANumber /\ b.value # NotANumber /\ b.value - a.value < 0

\* Array.prototype.sort with that comparator: by count descending, equal
\* counts keep their order (the sort is stable)
SortEntries(entries) ==
    LET Precedes(j, i) ==
            \/ CountBefore(entries[j], entries[i])
            \/ (~CountBefore(entries[i], entries[j]) /\ j < i)
        rank == [i \in DOMAIN entries |->
                    1 + Cardinality({ j \in DOMAIN entries : j # i /\ Precedes(j, i) })]
    IN [k \in DOMAIN entries |->
           entries[CHOOSE i \in DOMAIN entries : rank[i] = k]]

getTopKeywords(frequencies, limit) ==
    LET top == Slice(SortEntries(frequencies), limit)
    IN [n \in DOMAIN top |-> [keyword |-> top[n].key, count |-> top[n].value]]

\* .filter(([_, count]) => count >= minFrequency).reduce(acc[word] = count);
\* count >= minFrequency is false for a count that is no number
Filtered(entries, minFrequency) ==
    SelectSeq(entries, LAMBDA e : e.value # NotANumber /\ e.value >= minFrequency)

\* post.text ? this.extractKeywords(post.text) : {}
TextFreq(post) == IF post.text # <<>> THEN extractKeywords(post.text) ELSE <<>>

\* Date.now() / 1000, in ticks
Date_now == now

\* Mutant: the trends are computed from the posts of the last hour only.
analyzeTrendingKeywords_RecentOnly(array, minFrequency) ==
    LET recent == SelectSeq(array, LAMBDA post : post.created_utc > Date_now - TicksPerHour)
        allFrequencies ==
            [n \in DOMAIN recent |->
                mergeFrequencies(<<extractKeywords(recent[n].title), TextFreq(recent[n])>>)]
        merged == mergeFrequencies(allFrequencies)
    IN getTopKeywords(Filtered(merged, minFrequency), TopKeywordsLimit)

analyzeTrendingKeywords(array, minFrequency) ==
    LET allFrequencies ==
            [n \in DOMAIN array |->
                mergeFrequencies(<<extractKeywords(array[n].title), TextFreq(array[n])>>)]
        merged == mergeFrequencies(allFrequencies)
    IN getTopKeywords(Filtered(merged, minFrequency), TopKeywordsLimit)

analyzeCommentTrends(comments, minFrequency) ==
    LET allFrequencies == [n \in DOMAIN comments |-> extractKeywords(comments[n].body)]
        merged == mergeFrequencies(allFrequencies)
    IN getTopKeywords(Filtered(merged, minFrequency), TopKeywordsLimit)

\* bySubreddit: the subreddits in the order of their first post
RECURSIVE GroupNames(_, _)
GroupNames(array, names) ==
    IF array = <<>> THEN names
    ELSE GroupNames(Tail(array),
                    IF \E n \in DOMAIN names : names[n] = Head(array).subreddit
                    THEN names ELSE Append(names, Head(array).subreddit))

RECURSIVE Sum(_)
\* subPosts.reduce((sum, p) => sum + p.score, 0)
Sum(array) == IF array = <<>> THEN 0 ELSE Head(array).score + Sum(Tail(array))

\* avgScore is the quotient sum / length, kept as the pair
getTrendsBySubreddit(array) ==
    LET names == GroupNames(array, <<>>)
        SubPosts(name) == SelectSeq(array, LAMBDA p : p.subreddit = name)
    IN [n \in DOMAIN names |->
           [key |-> names[n],
            value |-> [postCount |-> Len(SubPosts(names[n])),
                       topKeywords |->
                           Slice(analyzeTrendingKeywords(SubPosts(names[n]),
                                                         SubredditMinFrequency),
                                 SubredditKeywordsLimit),
                       avgScore |-> [sum |-> Sum(SubPosts(names[n])),
                                     length |-> Len(SubPosts(names[n]))]]]]

RECURSIVE GCD(_, _)
GCD(a, b) == IF b = 0 THEN a ELSE GCD(b, a % b)

\* The number engagementScore / Math.pow(ageFactor, 1.5), with ageFactor in
\* ticks, kept exactly: its sign, and its square as the fraction num / den
\* in lowest terms.
Quotient(engagementScore, ageFactor) ==
    LET n == engagementScore * engagementScore
                * TicksPerHour * TicksPerHour * TicksPerHour
        d == ageFactor * ageFactor * ageFactor
        g == GCD(n, d)
    IN [sign |-> IF engagementScore > 0 THEN 1
                 ELSE IF engagementScore < 0 THEN -1 ELSE 0,
        num |-> n \div g, den |-> d \div g]

\* Mutant: the age is not applied, the score is the engagement.
calculateTrendingScore_NoDecay(post) ==
    Quotient(post.score + (post.num_comments * CommentWeight), TicksPerHour)

\* ageFactor is Math.max(1, ageInHours), in ticks
calculateTrendingScore(post) ==
    LET ageInTicks == Date_now - post.created_utc
        ageFactor == Max(TicksPerHour, ageInTicks)
        engagementScore == post.score + (post.num_comments * CommentWeight)
    IN Quotient(engagementScore, ageFactor)

\* s > t for two trending scores
ScoreGreater(s, t) ==
    IF s.sign # t.sign THEN s.sign > t.sign
    ELSE IF s.sign = 1 THEN s.num * t.den > t.num * s.den
    ELSE IF s.sign = -1 THEN s.num * t.den < t.num * s.den
    ELSE FALSE

RECURSIVE InsertPost(_, _)
InsertPost(p, sorted) ==
    IF sorted = <<>> THEN <<p>>
    ELSE IF ScoreGreater(p.trendingScore, Head(sorted).trendingScore)
         THEN <<p>> \o sorted
    ELSE <<Head(sorted)>> \o InsertPost(p, Tail(sorted))

RECURSIVE SortPosts(_, _)
\* .sort((a, b) => b.trendingScore - a.trendingScore), stable
SortPosts(array, sorted) ==
    IF array = <<>> THEN sorted
    ELSE SortPosts(Tail(array), InsertPost(Head(array), sorted))

\* Scored(post) is { ...post, trendingScore: this.calculateTrendingScore(post) }
getTopTrendingPosts(array, limit) ==
    LET Scored(post) ==
            [title |-> post.title, text |-> post.text, subreddit |-> post.subreddit,
             score |-> post.score, num_comments |-> post.num_comments,
             created_utc |-> post.created_utc,
             trendingScore |-> calculateTrendingScore(post)]
    IN Slice(SortPosts([n \in DOMAIN array |-> Scored(array[n])], <<>>), limit)

getEmergingTopics(array, hoursThreshold) ==
    LET cutoffTime == Date_now - (hoursThreshold * TicksPerHour)
        recentPosts == SelectSeq(array, LAMBDA post : post.created_utc > cutoffTime)
    IN IF Len(recentPosts) = 0 THEN <<>>
       ELSE Slice(analyzeTrendingKeywords(recentPosts, EmergingMinFrequency),
                  EmergingLimit)

NotCalled == [called |-> FALSE, map |-> <<>>]

StartTime == 4     \* the clock when the analysis starts, in ticks

NoCall == [op |-> "none", args |-> <<>>, at |-> 0, result |-> <<>>]

\* no analysis is under way
NotAnalyzing == now = StartTime /\ analyzed = <<>> /\ last = NoCall

EngineInit == text = <<>> /\ frequency = NotCalled /\ NotAnalyzing

\* the caller composes the text it will pass
TypeChar ==
    /\ ~frequency.called
    /\ Len(text) < MaxTextLen
    /\ \E c \in Chars : text' = Append(text, c)
    /\ UNCHANGED <<frequency, clientVars, analyzerVars>>

\* extractKeywords(text) is called
ExtractKeywords ==
    /\ ~frequency.called
    /\ frequency' = [called |-> TRUE, map |-> extractKeywords(text)]
    /\ UNCHANGED <<text, clientVars, analyzerVars>>

EngineNext == TypeChar \/ ExtractKeywords

(***************************************************************************)
(* Calls on the TrendAnalyzer: the posts analysed and the operations.       *)
(***************************************************************************)

\* "The Game is SO GOOD!!"
TitleGame ==
    <<"T", "h", "e", " ", "G", "a", "m", "e", " ", "i", "s", " ", "S", "O",
      " ", "G", "O", "O", "D", "!", "!">>

\* "constructor game"
TitleConstructor ==
    <<"c", "o", "n", "s", "t", "r", "u", "c", "t", "o", "r", " ",
      "g", "a", "m", "e">>

\* "Game play game"
TextGame ==
    <<"G", "a", "m", "e", " ", "p", "l", "a", "y", " ", "g", "a", "m", "e">>

\* the k-th word of a vocabulary of distinct keywords: woraa, worab, ...
VocabularyWord(k) ==
    <<"w", "o", "r", LowerCase[((k - 1) \div 26) + 1], LowerCase[((k - 1) % 26) + 1]>>

RECURSIVE Sentence(_)
\* the first n words of the vocabulary, separated by spaces
Sentence(n) ==
    IF n = 0 THEN <<>>
    ELSE IF n = 1 THEN VocabularyWord(1)
    ELSE Sentence(n - 1) \o <<" ">> \o VocabularyWord(n)

Post(title, selftext, subreddit, engagement, created) ==
    [title |-> title, text |-> selftext, subreddit |-> subreddit,
     score |-> engagement.score, num_comments |-> engagement.num_comments,
     created_utc |-> created]

\* posts that differ in engagement and age, and a post whose title holds a
\* name of Object.prototype
SamplePosts ==
    { Post(TitleGame, <<>>, "a", e, t) :
          e \in { [score |-> 0, num_comments |-> 0], [score |-> 3, num_comments |-> 1] },
          t \in {0, 3, 4} }
    \cup { Post(TitleConstructor, TextGame, "b", [score |-> 3, num_comments |-> 1], 0) }

\* a post whose title has one keyword more than analyzeTrendingKeywords returns
ManyKeywordsPost ==
    Post(Sentence(TopKeywordsLimit + 1), TextGame, "b",
         [score |-> 3, num_comments |-> 1], 3)

PostLists == SeqsUpTo(SamplePosts, MaxAnalyzed) \cup {<<ManyKeywordsPost>>}

MinFrequencies == {0, 3}    \* minFrequency (default 3)


\* the operation `operation` of the TrendAnalyzer applied to `args`
Apply(operation, args) ==
    CASE operation = "extractKeywords" -> extractKeywords(args[1])
      [] operation = "mergeFrequencies" -> mergeFrequencies(args[1])
      [] operation = "getTopKeywords" -> getTopKeywords(args[1], args[2])
      [] operation = "analyzeTrendingKeywords" -> analyzeTrendingKeywords(args[1], args[2])
      [] operation = "analyzeCommentTrends" -> analyzeCommentTrends(args[1], args[2])
      [] operation = "getTrendsBySubreddit" -> getTrendsBySubreddit(args[1])
      [] operation = "calculateTrendingScore" -> calculateTrendingScore(args[1])
      [] operation = "getTopTrendingPosts" -> getTopTrendingPosts(args[1], args[2])
      [] operation = "getEmergingTopics" -> getEmergingTopics(args[1], args[2])

\* A call: the operation runs to completion at the current clock.  Every
\* operation builds new arrays and objects (map, filter, Object.entries,
\* {}); sort acts on those, so the array handed in stays as it was.
Call(operation, args) ==
    /\ last' = [op |-> operation, args |-> args, at |-> now,
                result |-> Apply(operation, args)]
    /\ UNCHANGED <<now, analyzed, text, frequency, clientVars>>

\* the frequency maps of the titles
TitleFrequencies == [n \in DOMAIN analyzed |-> extractKeywords(analyzed[n].title)]

\* the posts seen as comments
AsComments == [n \in DOMAIN analyzed |-> [body |-> analyzed[n].title]]

AllCounts(obj) == \A n \in DOMAIN obj : obj[n].value # NotANumber

\* time passes between two calls
Tick ==
    /\ now < StartTime + MaxTicks
    /\ now' = now + 1
    /\ UNCHANGED <<analyzed, last, text, frequency, clientVars>>

CallExtractKeywords ==
    \E n \in DOMAIN analyzed : Call("extractKeywords", <<analyzed[n].title>>)

CallMergeFrequencies == Call("mergeFrequencies", <<TitleFrequencies>>)

CallGetTopKeywords ==
    /\ AllCounts(mergeFrequencies(TitleFrequencies))
    /\ \E limit \in {20} :
          Call("getTopKeywords", <<mergeFrequencies(TitleFrequencies), limit>>)

CallAnalyzeTrendingKeywords ==
    \E m \in MinFrequencies : Call("analyzeTrendingKeywords", <<analyzed, m>>)

CallAnalyzeCommentTrends ==
    \E m \in MinFrequencies : Call("analyzeCommentTrends", <<AsComments, m>>)

CallGetTrendsBySubreddit == Call("getTrendsBySubreddit", <<analyzed>>)

CallCalculateTrendingScore ==
    \E n \in DOMAIN analyzed : Call("calculateTrendingScore", <<analyzed[n]>>)

CallGetTopTrendingPosts ==
    \E limit \in {1, 10} : Call("getTopTrendingPosts", <<analyzed, limit>>)

CallGetEmergingTopics ==
    \E h \in {1} : Call("getEmergingTopics", <<analyzed, h>>)

AnalyzerNext ==
    \/ Tick
    \/ CallExtractKeywords
    \/ CallMergeFrequencies
    \/ CallGetTopKeywords
    \/ CallAnalyzeTrendingKeywords
    \/ CallAnalyzeCommentTrends
    \/ CallGetTrendsBySubreddit
    \/ CallCalculateTrendingScore
    \/ CallGetTopTrendingPosts
    \/ CallGetEmergingTopics

ClientNext ==
    \/ FetchHotPosts
    \/ FetchComments
    \/ FetchPostsWithComments
    \/ UpstreamAttempt
    \/ HotGot
    \/ FetchHotPostsReturns
    \/ ComGot
    \/ FetchCommentsReturns
    \/ PwcGotPosts
    \/ PwcGotComments

Init == ClientInit /\ EngineInit

Next == ClientNext

Spec == Init /\ [][Next]_vars

\* The event loop runs every timer and delivers every upstream completion
\* (requests carry requestTimeout 30000): a pending step is eventually taken.
FairSpec == Spec /\ WF_vars(Next)

\* the keyword engine alone, on texts of up to MaxTextLen characters
\* The engine reads nothing of the client: one client configuration is enough
EngineStart == Init /\ client.maxRetries = 0

EngineSpec == EngineStart /\ [][EngineNext]_vars

\* the TrendAnalyzer alone, on arrays of up to MaxAnalyzed posts
AnalyzerStart ==
    /\ ClientInit
    /\ client.maxRetries = 0
    /\ text = <<>>
    /\ frequency = NotCalled
    /\ now = StartTime
    /\ analyzed \in PostLists
    /\ last = NoCall

AnalyzerSpec == AnalyzerStart /\ [][AnalyzerNext]_vars

TypeOK ==
    /\ pc \in {"idle", "retry", "hot_got", "hot_ret", "com_got", "com_ret", "done"}
    /\ op \in {"none", "fetchHotPosts", "fetchComments", "fetchPostsWithComments"}
    /\ chain.state \in {"none", "pending", "returned", "thrown"}

(***************************************************************************)
(* Properties.                                                             *)
(***************************************************************************)
AllRateLimit(errors) == \A n \in DOMAIN errors : IsRateLimitError(errors[n])

\* C1: batch isolation of fetchHotPosts: whatever sources fail to fetch, and
\* with whatever error, fetchHotPosts completes normally and returns exactly
\* the posts of the sources that did not fail (stated for the runs whose
\* listings are well-formed).
C1_BatchIsolation ==
    (pc = "hot_ret" /\ ~obs.malformed) =>
        (ret.kind = "return" /\ ret.value = obs.wanted)

\* C2: when the upstream rejects k times with a rate-limit signal and then
\* answers, the chain issued exactly k+1 attempts, slept before every
\* re-attempt (at least 5*1000+1000 ms before the 2nd attempt when the first
\* signal carried remaining=5) and returns the answer without throwing.
C2_RetryThenSuccess ==
    /\ (chain.attempts >= 2 /\ AllRateLimit(chain.errors)) =>
            (chain.preCall.type = "sleep" /\ chain.preCall.ms > 0)
    /\ (chain.answered /\ AllRateLimit(chain.errors)) =>
            /\ chain.state = "returned"
            /\ chain.attempts = Len(chain.errors) + 1
            /\ Len(chain.waits) = Len(chain.errors)
            /\ (chain.errors # <<>> /\ chain.errors[1] = E429r5) =>
                    chain.waits[1] >= (5 * 1000) + 1000

C2_Witness ==
    /\ chain.state = "returned"
    /\ chain.errors = <<E429r5, E429r5>>
    /\ chain.attempts = 3
    /\ chain.waits[1] = 6000

\* C3 (as claimed): when the retries of a call run out on rate-limit
\* signals, the public operation ends by throwing the rate-limit-exceeded
\* error to its caller.
C3_ExhaustionEscalates ==
    (pc = "done" /\ obs.exhausted) =>
        (result.kind = "throw" /\ result.error = RateLimitExceededError)

\* C3 (amended): when the retries run out on a rate-limit signal,
\* retryWithBackoff throws the rate-limit-exceeded error, which no upstream
\* error equals, to fetchHotPosts or fetchComments; these catch it, and the
\* public operation never ends by throwing it.
C3_ExhaustionThrownByRetry ==
    /\ (chain.state = "thrown" /\ IsRateLimitError(chain.errors[Len(chain.errors)])) =>
            /\ chain.error = RateLimitExceededError
            /\ chain.error \notin UpstreamErrors
            /\ chain.retries = 0
    /\ (pc \in {"hot_ret", "com_ret", "done"}) =>
            /\ ret.error # RateLimitExceededError
            /\ result.error # RateLimitExceededError

C3_Witness ==
    /\ pc = "done"
    /\ obs.exhausted
    /\ client.maxRetries = MaxRetriesCfg
    /\ result.kind = "return"

\* C4: whatever error is raised inside fetchComments (by the retried
\* getSubmission, by expandReplies or by the mapping of a comment),
\* fetchComments completes normally and returns an empty sequence.
C4_FetchCommentsNeverFails ==
    (pc = "com_ret" /\ obs.detailError) => ret = Returned(<<>>)

\* C5: fetchPostsWithComments calls fetchComments for exactly the first
\* min(number of posts, MAX_POSTS_FOR_COMMENTS) posts, in order, once each:
\* never for more than the cap, for none when no post was fetched (and then
\* the comments returned are empty).
C5_DetailFetchCap ==
    op = "fetchPostsWithComments" =>
        /\ Len(obs.details) <= Min(Len(pwc.posts), pwc.cap)
        /\ \A k \in DOMAIN obs.details : obs.details[k] = pwc.posts[k].id
        /\ (pc = "done" /\ result.kind = "return") =>
               /\ Len(obs.details) = Min(Len(result.value.posts), pwc.cap)
               /\ (result.value.posts = <<>> => result.value.comments = <<>>)
        /\ (pc = "done" /\ result.kind = "throw") => obs.details = <<>>

C5_Witness ==
    /\ op = "fetchPostsWithComments"
    /\ pc = "done"
    /\ result.kind = "return"
    /\ Len(result.value.posts) = 2
    /\ pwc.cap = 1
    /\ obs.details = <<result.value.posts[1].id>>

\* C6: every upstream call attempt is immediately preceded by a sleep of
\* the configured request delay, done by the client itself.
C6_ExplicitPacing ==
    chain.attempts > 0 => chain.preCall = SleepEvent(client.requestDelay)

\* the position of the post a comment was fetched for
ParentIndex(posts, comment) ==
    CHOOSE k \in DOMAIN posts : posts[k].id = comment.post_id

\* C7: fetchHotPosts returns the posts of the fetched sources, in source
\* order and within a source in upstream order; fetchPostsWithComments
\* returns the comments in the order of their posts and within a post in
\* upstream order.
C7_Ordering ==
    /\ (pc = "hot_ret" /\ ret.kind = "return") => ret.value = obs.wanted
    /\ (pc = "done" /\ op = "fetchPostsWithComments" /\ result.kind = "return") =>
            LET posts == result.value.posts
                comments == result.value.comments
            IN \A m, n \in DOMAIN comments :
                   m < n =>
                       \/ ParentIndex(posts, comments[m]) < ParentIndex(posts, comments[n])
                       \/ /\ comments[m].post_id = comments[n].post_id
                          /\ comments[m].created_utc < comments[n].created_utc

\* C8: a malformed record of a listing is dropped alone: every well-formed
\* record of every fetched listing is in the posts fetchHotPosts returns.
C8_MalformedIsolation ==
    (pc = "hot_ret" /\ ret.kind = "return") =>
        \A n \in DOMAIN obs.wanted : obs.wanted[n] \in Range(ret.value)

\* C9: a retryWithBackoff chain issues at most MAX_RETRIES attempts after
\* the first one, whatever the upstream answers, and ends by returning or
\* throwing.
C9_RetryBudget ==
    /\ [](chain.attempts <= client.maxRetries + 1)
    /\ [](chain.state = "pending" => chain.attempts + chain.retries = client.maxRetries)
    /\ (pc = "retry" ~> pc \in {"hot_got", "com_got"})

C9_Witness ==
    /\ client.maxRetries = MaxRetriesCfg
    /\ chain.attempts = MaxRetriesCfg + 1
    /\ chain.state = "thrown"
    /\ Len(chain.waits) = MaxRetriesCfg

\* punctuation characters (of ASCII, those that texts here can hold)
Punctuation ==
    {"!", "#", "$", "%", "&", ",", "-", ".", "/", ":", ";", "?", "@", "_", "~"}

\* C10: every key of the map extractKeywords returns is longer than 3, is
\* lower-case, holds no punctuation character, is no stop word and is not
\* purely numeric.
C10_KeywordKeys ==
    \A key \in Keys(frequency.map) :
        /\ Len(key) > 3
        /\ \A n \in DOMAIN key : key[n] \notin Range(UpperCase)
        /\ \A n \in DOMAIN key : key[n] \notin Punctuation
        /\ Join(key) \notin stopWords
        /\ \E n \in DOMAIN key : key[n] \notin Digits

WordGame == <<"g", "a", "m", "e">>
WordGood == <<"g", "o", "o", "d">>

\* C11 (as claimed): extractKeywords("The Game is SO GOOD!!") returns exactly
\* the frequency map {game: 1, good: 1}.
C11_GameAndGood ==
    (last.op = "extractKeywords" /\ last.args = <<TitleGame>>) =>
        /\ Len(last.result) = 2
        /\ Range(last.result) = { [key |-> WordGame, value |-> 1],
                                  [key |-> WordGood, value |-> 1] }

\* C11 (amended): extractKeywords("The Game is SO GOOD!!") returns exactly
\* the frequency map {game: 1}: "the", "is" and "so" are excluded, and so
\* is "good", which is a stop word.
C11_GameOnly ==
    (last.op = "extractKeywords" /\ last.args = <<TitleGame>>) =>
        /\ last.result = << [key |-> WordGame, value |-> 1] >>
        /\ "good" \in stopWords

C11_Witness ==
    /\ last.op = "extractKeywords"
    /\ last.args = <<TitleGame>>
    /\ Len(last.result) = 1

\* the keywords extractKeywords finds in the titles and texts of the posts
KeywordsOf(array) ==
    UNION { Keys(extractKeywords(array[n].title)) \cup Keys(extractKeywords(array[n].text)) :
                n \in DOMAIN array }

\* how often a word is among the words that survive in a text
Occurrences(word, t) ==
    Cardinality({ n \in DOMAIN Words(t) : Words(t)[n] = word })

RECURSIVE TotalCount(_, _)
TotalCount(array, word) ==
    IF array = <<>> THEN 0
    ELSE Occurrences(word, Head(array).title) + Occurrences(word, Head(array).text)
            + TotalCount(Tail(array), word)

\* C12: analyzeTrendingKeywords(posts, 0) returns an entry for every keyword
\* that extractKeywords finds in a title or text of the posts, with the
\* keyword's total count over all titles and texts.
C12_ThresholdZero ==
    (last.op = "analyzeTrendingKeywords" /\ last.args[2] = 0) =>
        \A word \in KeywordsOf(last.args[1]) :
            \E n \in DOMAIN last.result :
                last.result[n] = [keyword |-> word,
                                  count |-> TotalCount(last.args[1], word)]

\* the post a scored post of the result was made from
Unscored(p) ==
    [title |-> p.title, text |-> p.text, subreddit |-> p.subreddit,
     score |-> p.score, num_comments |-> p.num_comments,
     created_utc |-> p.created_utc]

\* two posts of the result with identical score and comment count, the
\* first created longer ago than the second
OlderTwin(ranked, i, j) ==
    /\ ranked[i].score = ranked[j].score
    /\ ranked[i].num_comments = ranked[j].num_comments
    /\ ranked[i].created_utc < ranked[j].created_utc

\* C13 (as claimed): of two posts with identical score and comment count
\* scored at the same instant, the one created longer ago never gets the
\* higher trending score, gets a strictly lower one once it is more than
\* one hour old, and getTopTrendingPosts then ranks it after the other.
C13_TimeDecay ==
    (last.op = "getTopTrendingPosts" /\ last.args[2] >= Len(last.args[1])) =>
        \A i, j \in DOMAIN last.result :
            OlderTwin(last.result, i, j) =>
                /\ ~ScoreGreater(last.result[i].trendingScore, last.result[j].trendingScore)
                /\ (last.at - last.result[i].created_utc > TicksPerHour) =>
                       /\ ScoreGreater(last.result[j].trendingScore,
                                       last.result[i].trendingScore)
                       /\ j < i

\* C13 (amended): of two posts with identical score and comment count, whose
\* engagement score + 2 * comments is not negative, the one created longer
\* ago never gets the higher trending score; when the engagement is
\* positive it gets a strictly lower one once it is more than one hour old
\* and getTopTrendingPosts ranks it after the other; when the engagement is
\* 0 both scores are 0 and the two keep the order they were passed in.
C13_TimeDecayOfPositive ==
    (last.op = "getTopTrendingPosts" /\ last.args[2] >= Len(last.args[1])) =>
        /\ Len(last.result) = Len(last.args[1])
        /\ \A i, j \in DOMAIN last.result :
            (OlderTwin(last.result, i, j)
                    /\ last.result[i].score + (2 * last.result[i].num_comments) >= 0) =>
                LET older == last.result[i].trendingScore
                    newer == last.result[j].trendingScore
                    engagement == last.result[i].score + (2 * last.result[i].num_comments)
                IN /\ ~ScoreGreater(older, newer)
                   /\ (engagement > 0
                          /\ last.at - last.result[i].created_utc > TicksPerHour) =>
                          (ScoreGreater(newer, older) /\ j < i)
                   /\ (engagement = 0) => ~ScoreGreater(newer, older)
        /\ LET NoEngagement(p) == p.score + (2 * p.num_comments) = 0
               ranked == SelectSeq(last.result, NoEngagement)
           IN [n \in DOMAIN ranked |-> Unscored(ranked[n])] =
                  SelectSeq(last.args[1], NoEngagement)

C13_Witness ==
    /\ last.op = "getTopTrendingPosts"
    /\ Len(last.result) = 2
    /\ OlderTwin(last.result, 2, 1)
    /\ last.result[1].score > 0
    /\ last.at - last.result[2].created_utc > TicksPerHour
    /\ last.args[1][1] = Unscored(last.result[2])

\* the operations that read the clock
ClockReading == {"calculateTrendingScore", "getTopTrendingPosts", "getEmergingTopics"}

DelayAfter(n) ==
    IF n < Len(chain.delays) THEN chain.delays[n + 1] ELSE chain.delay

\* the signaled reset seconds of a rate-limit error, 0 when none is signaled
SignaledResetSeconds(e) ==
    IF e.ratelimitRemaining = NoHint THEN 0 ELSE e.ratelimitRemaining

\* C15 (as claimed): on every rate-limit signal with retries remaining the
\* wait before the next attempt is max(signaledResetSeconds*1000 + 1000,
\* currentBackoffDelay), never shorter than the current backoff delay, and
\* the backoff delay passed to the next attempt is doubled.
C15_WaitIsMax ==
    \A n \in DOMAIN chain.waits :
        IsRateLimitError(chain.errors[n]) =>
            /\ chain.waits[n] =
                   Max((SignaledResetSeconds(chain.errors[n]) * 1000) + 1000,
                       chain.delays[n])
            /\ chain.waits[n] >= chain.delays[n]
            /\ DelayAfter(n) = 2 * chain.delays[n]

\* C15 (amended): on every rate-limit signal with retries remaining the
\* wait before the next attempt is signaledResetSeconds*1000 + 1000 when a
\* hint other than 0 is signaled, even where that is shorter than the
\* current backoff delay, and the current backoff delay when the hint is 0
\* or missing; the backoff delay passed to the next attempt is doubled.
C15_WaitIsHintOrDelay ==
    \A n \in DOMAIN chain.waits :
        IsRateLimitError(chain.errors[n]) =>
            /\ chain.waits[n] =
                   IF SignaledResetSeconds(chain.errors[n]) > 0
                   THEN (SignaledResetSeconds(chain.errors[n]) * 1000) + 1000
                   ELSE chain.delays[n]
            /\ DelayAfter(n) = 2 * chain.delays[n]

\* a second rate-limit signal with remaining=1 is waited 2000 ms while the
\* backoff delay is 4000 ms; signals with hint 0 and with no hint are waited
\* the backoff delay
C15_Witness ==
    /\ chain.attempts = 3
    /\ chain.errors[2] = E429r1
    /\ chain.errors[1] \in {E429r0, ERateMsg}
    /\ chain.delays = <<2000, 4000>>
    /\ chain.waits = <<2000, 2000>>
    /\ chain.delay = 8000

\* the retried errors of the chain that were rate-limit signals, and the others
RateLimitRetries == {n \in DOMAIN chain.waits : IsRateLimitError(chain.errors[n])}
ServerErrorRetries == DOMAIN chain.waits \ RateLimitRetries

RECURSIVE Power(_, _)
Power(b, k) == IF k = 0 THEN 1 ELSE b * Power(b, k - 1)

\* C16 (as claimed): within one retry chain the backoff delay is grown
\* either only by the rate-limit factor 2 or only by the server-error factor
\* 1.5; no chain applies both factors.
C16_NeverMixed ==
    \/ \A n \in DOMAIN chain.delays : DelayAfter(n) = 2 * chain.delays[n]
    \/ \A n \in DOMAIN chain.delays : 2 * DelayAfter(n) = 3 * chain.delays[n]

\* C16 (amended): a retry chain has one backoff delay, starting at 2000 ms;
\* every retried rate-limit signal doubles it and every retried server-class
\* error multiplies it by 1.5, in the order the errors come, so a chain that
\* meets both kinds of error applies both factors.
C16_OneRunningDelay ==
    /\ \A n \in DOMAIN chain.delays :
           IF n \in RateLimitRetries
           THEN DelayAfter(n) = 2 * chain.delays[n]
           ELSE 2 * DelayAfter(n) = 3 * chain.delays[n]
    /\ chain.fn # "none" =>
           chain.delay * Power(2, Cardinality(ServerErrorRetries)) =
               InitialBackoffDelay * Power(2, Cardinality(RateLimitRetries))
                                   * Power(3, Cardinality(ServerErrorRetries))

\* a server error and then a rate-limit signal were retried: 2000 ms became
\* 3000 ms and then 6000 ms
C16_Witness ==
    /\ chain.attempts = 3
    /\ chain.errors[1] = E503
    /\ IsRateLimitError(chain.errors[2])
    /\ chain.delays = <<2000, 3000>>
    /\ chain.delay = 6000

\* an error that is neither a rate-limit signal nor a server-class error
NonRetryable(e) == ~IsRateLimitError(e) /\ ~IsServerError(e)

\* C17: when an attempt of a retry chain fails with an error that is neither
\* a rate-limit signal nor a server-class error, the chain throws that same
\* error at once: the attempt is the chain's last one and no wait follows
\* it, however many retries remain.
C17_PropagatesImmediately ==
    \A n \in DOMAIN chain.errors :
        NonRetryable(chain.errors[n]) =>
            /\ n = Len(chain.errors)
            /\ chain.state = "thrown"
            /\ chain.error = chain.errors[n]
            /\ chain.attempts = n
            /\ Len(chain.waits) = n - 1
            /\ pc = Continuation(chain.fn) => lastEvent = CallEvent

\* a 404 is thrown after one retried error while a retry remains
C17_Witness ==
    /\ chain.state = "thrown"
    /\ chain.errors = <<E503, E404>>
    /\ chain.error = E404
    /\ chain.retries > 0
    /\ pc = Continuation(chain.fn)

\* the remaining-quota hint of the error the previous attempt of the chain
\* ended with is below the low-water mark
LowQuotaReported ==
    /\ chain.attempts >= 2
    /\ chain.errors[chain.attempts - 1].ratelimitRemaining \in 0..(LowWaterMark - 1)

\* C18 (as claimed): whenever the most recent remaining-quota hint reported
\* by the upstream is below the low-water mark 10 (0 included), the next
\* upstream call is preceded by the extra cooldown wait of 5000 ms, also when
\* that call is a retry.
C18_ProgressiveThrottling ==
    LowQuotaReported => chain.preCall = SleepEvent(CooldownDelay)

\* C19 (as claimed): requestCount starts at 0 and equals the number of
\* upstream call attempts issued so far, the attempts of getHot and
\* getSubmission inside retry chains and the calls of expandReplies alike,
\* each counted once and nothing else counted; it never decreases.
C19_RequestAccounting ==
    /\ pc = "idle" => client.requestCount = 0
    /\ client.requestCount = obs.upstreamCalls + obs.expands

\* the first upstream request of a source after the first has been issued
FirstRequestOfNextSource ==
    chain.fn = "getHot" /\ chain.attempts = 1 /\ hot.idx >= 2

\* C20 (as claimed): in fetchHotPosts, whatever the source list (repeated
\* names included) and whichever sources succeed or fail, a wait of 1000 ms
\* comes between finishing a source and the first upstream request of the
\* next source, and no such wait comes after the last source.
C20_InterSourceDelay ==
    /\ FirstRequestOfNextSource => chain.preCall = SleepEvent(InterSourceDelay)
    /\ pc = "hot_ret" => lastEvent # SleepEvent(InterSourceDelay)

====
